---------------------------- MODULE Spec2Model ----------------------------
(***************************************************************************)
(* A model of codeql-ts (src/src/index.ts): the subprocess runner          *)
(* runAsyncShell, which races a process's close event against a timer and  *)
(* captures its output in two temporary files, and the query resolution    *)
(* cache of CodeQL.resolveQueries.                                         *)
(*                                                                         *)
(* JavaScript runs one callback at a time: an action of this model is one  *)
(* macrotask (an event callback) together with the promise continuations   *)
(* it releases, up to the next await that needs another event.             *)
(***************************************************************************)
EXTENDS Integers, Sequences, FiniteSets, TLC

(***************************************************************************)
(* Bounds of the model.                                                    *)
(***************************************************************************)
\* runAsyncShell calls made during one run
MaxShellCalls == 1

\* resolveQueries calls made during one run
MaxResolveCalls == 2

\* identifiers passed to one resolveQueries call
MaxBatch == 2

\* facade operations a caller starts on one instance
MaxOps == 2

\* makeSuite calls made during one run
MaxSuiteCalls == 2

\* classifyFiles calls made during one run, one after the other
MaxClassifyCalls == 2

\* tuples in one decoded result
MaxTuples == 2

ShellCalls == 1..MaxShellCalls

ResolveCalls == 1..MaxResolveCalls

SuiteCalls == 1..MaxSuiteCalls

(***************************************************************************)
(* Values.  An optional value (T | undefined, T | null) is a sequence of   *)
(* length at most one: <<>> is undefined/null, <<v>> is v.                  *)
(***************************************************************************)
None == <<>>

Some(v) == <<v>>

\* the exit code a close event carries: null when a signal ended the process
ExitCodes == {None, Some(0), Some(1)}

\* the timeout of an instance: -1 (the default, no timeout), 0, or seconds
Timeouts == {-1, 0, 2}

SizeCap == 1024 * 1024 * 1024

\* sizes a temporary file is observed with: empty, exactly the cap, over it
FileSizes == {0, SizeCap, SizeCap + 1}

\* the string readFile returns for a file of n bytes of process output
FileText(n) == IF n = 0 THEN "" ELSE "output of " \o ToString(n) \o " bytes"

CapMessage == "stdout or stderr file is larger than 1GB"

\* resolve(124) in the timer callback (line 434)
TimeoutExitCode == 124

\* the exit code of the size-cap return (line 445)
CapExitCode == 124

VARIABLES
    timeout,          \* CodeQL.timeout, fixed at construction, passed to every call
    shell,            \* shell[c]: the locals and the resources of runAsyncShell call c
    resolvedQueries,  \* CodeQL.resolvedQueries, the cache: query id -> path
    rq,               \* rq[r]: the locals and the suite file of resolveQueries call r
    mk,               \* the call of CodeQL.make and the instance it makes
    su,               \* su[k]: makeSuite call k and its temporary file
    cf,               \* the current classifyFiles (or createDatabase,
                      \* analyzeDatabase) call and its temporary files
    lg,               \* the lookups in the language tables made so far
    tf                \* the temporary directory and the runAsyncShell calls
                      \* that share it

vars == <<timeout, shell, resolvedQueries, rq, mk, su, cf, lg, tf>>

\* what runAsyncShell leaves alone
notShell == <<timeout, resolvedQueries, rq, mk, su, cf, lg, tf>>

\* what resolveQueries leaves alone
notResolve == <<timeout, shell, mk, su, cf, lg, tf>>

\* what make leaves alone
notMake == <<timeout, shell, resolvedQueries, rq, su, cf, lg, tf>>

\* what makeSuite leaves alone
notSuite == <<timeout, shell, resolvedQueries, rq, mk, cf, lg, tf>>

\* what classifyFiles leaves alone, the cache apart
notClassify == <<timeout, shell, rq, mk, su, lg, tf>>

\* what a lookup in the language tables leaves alone
notLang == <<timeout, shell, resolvedQueries, rq, mk, su, cf, tf>>

\* what the temporary files of runAsyncShell calls leave alone
notTmp == <<timeout, shell, resolvedQueries, rq, mk, su, cf, lg>>

(***************************************************************************)
(* runAsyncShell                                                           *)
(***************************************************************************)
IdleShell ==
    [ pc |-> "idle",              \* where the async function is suspended
      proc |-> "none",            \* none, running, killed (signal sent), closed
      exit |-> None,              \* the code the close event carried
      closeSeen |-> FALSE,        \* ghost: the close listener has run
      codeFinished |-> FALSE,
      timeoutHandler |-> FALSE,   \* the variable holds a Timeout object
      timerArmed |-> FALSE,       \* the event loop holds a live timer of the call
      winner |-> "none",          \* which promise settled Promise.race
      code |-> None,              \* const code = await Promise.race(...)
      kills |-> 0,                \* proc.kill("SIGKILL") calls made
      killAfterClose |-> FALSE,   \* ghost: a kill was sent after close was seen
      outFile |-> FALSE, errFile |-> FALSE,      \* the temporary files exist
      outSize |-> 0, errSize |-> 0,
      outStream |-> "none", errStream |-> "none", \* none, opening, open, closed
      statOut |-> 0, statErr |-> 0,  \* the sizes statSync returned (lines 442-443)
      outRead |-> FALSE, errRead |-> FALSE,      \* readFile was called on the file
      stdout |-> "", stderr |-> "",
      result |-> None ]

\* a timer armed on the wrong side of the comparison
ArmsTimerInverted(t) == t < 0

\* a timer armed for a timeout of 0 as well
ArmsTimerAtZero(t) == t >= 0

\* timeout <= 0 arms no timer (line 425)
ArmsTimer(t) == t > 0

\* code ?? 0 (line 420)
NormalizeCode(code) == IF code = None THEN 0 ELSE code[1]

\* a size check that also rejects a file of exactly 1 GiB
OverCapInclusive(outSize, errSize) == outSize >= SizeCap \/ errSize >= SizeCap

\* the size check of lines 441-444
OverCap(outSize, errSize) == outSize > SizeCap \/ errSize > SizeCap

\* a close listener that leaves the timer alone
ClearTimeoutMissing(handler, armed) == armed

\* if (timeoutHandler) clearTimeout(timeoutHandler) (lines 417-419): whether
\* the timer is still armed afterwards
ClearTimeout(handler, armed) == IF handler THEN FALSE ELSE armed

\* a timer that stays armed after its callback ran, as setInterval's does
TimerRepeats(armed) == armed

\* setTimeout (line 428): the callback runs once, the timer is no longer
\* armed when it runs
TimerAfterFiring(armed) == FALSE

\* a timer callback that sends no signal
KillMissing(p) == p

\* proc.kill("SIGKILL") (line 433): a running process is signalled
Kill(p) == IF p = "running" THEN "killed" ELSE p

\* The continuation of `await Promise.race` (lines 438-448), run in the same
\* macrotask as the resolve() that settles the race: the size check, then
\* either the short-circuit return or the first readFile.
AfterRace(s, who, value) ==
    LET t == [s EXCEPT !.winner = who, !.code = Some(value),
                       !.statOut = s.outSize, !.statErr = s.errSize]
    IN IF OverCap(t.statOut, t.statErr)
       THEN [t EXCEPT !.pc = "done",
                      !.result = Some([code |-> CapExitCode, stdout |-> "",
                                       stderr |-> CapMessage])]
       ELSE [t EXCEPT !.pc = "readOut", !.outRead = TRUE]

\* lines 399-401: name the stdout file, create its stream, await "open"
ShellStart(c) ==
    /\ shell[c].pc = "idle"
    /\ \A d \in ShellCalls : d < c => shell[d].pc # "idle"
    /\ shell' = [shell EXCEPT ![c].pc = "openOut", ![c].outStream = "opening"]
    /\ UNCHANGED notShell

\* lines 401-405: stdout stream open (the file exists now); same for stderr
ShellOpenOut(c) ==
    /\ shell[c].pc = "openOut"
    /\ shell' = [shell EXCEPT ![c].pc = "openErr", ![c].outStream = "open",
                              ![c].outFile = TRUE, ![c].errStream = "opening"]
    /\ UNCHANGED notShell

\* lines 405-438: stderr stream open; spawn; install the close listener; arm
\* the timer when timeout > 0; await the race
ShellSpawn(c) ==
    /\ shell[c].pc = "openErr"
    /\ shell' = [shell EXCEPT ![c].pc = "race", ![c].errStream = "open",
                              ![c].errFile = TRUE, ![c].proc = "running",
                              ![c].codeFinished = FALSE,
                              ![c].timeoutHandler = ArmsTimer(timeout),
                              ![c].timerArmed = ArmsTimer(timeout)]
    /\ UNCHANGED notShell

\* the spawned process writes to its stdout or stderr (the temporary files)
ProcWrite(c) ==
    /\ shell[c].proc \in {"running", "killed"}
    /\ \/ /\ shell[c].outFile
          /\ \E n \in FileSizes :
                /\ n > shell[c].outSize
                /\ shell' = [shell EXCEPT ![c].outSize = n]
       \/ /\ shell[c].errFile
          /\ \E n \in FileSizes :
                /\ n > shell[c].errSize
                /\ shell' = [shell EXCEPT ![c].errSize = n]
    /\ UNCHANGED notShell

\* lines 415-421: the close listener.  A running process ends with any exit
\* code, a killed one with code null.  If the race is still open, resolve()
\* settles it and the function continues.
ProcClose(c) ==
    /\ shell[c].proc \in {"running", "killed"}
    /\ \E code \in ExitCodes :
          /\ shell[c].proc = "killed" => code = None
          /\ LET s == [shell[c] EXCEPT !.proc = "closed", !.exit = code,
                                       !.closeSeen = TRUE,
                                       !.codeFinished = TRUE,
                                       !.timerArmed =
                                           ClearTimeout(shell[c].timeoutHandler,
                                                        shell[c].timerArmed)]
             IN shell' = [shell EXCEPT ![c] =
                            IF s.pc = "race"
                            THEN AfterRace(s, "close", NormalizeCode(code))
                            ELSE s]
    /\ UNCHANGED notShell

\* lines 428-435: the timer callback
TimerFire(c) ==
    /\ shell[c].timerArmed
    /\ LET s == [shell[c] EXCEPT !.timerArmed = TimerAfterFiring(@)]
       IN shell' = [shell EXCEPT ![c] =
            IF s.codeFinished
            THEN s
            ELSE LET k == [s EXCEPT !.timeoutHandler = FALSE,
                                    !.proc = Kill(s.proc),
                                    !.kills = @ + 1,
                                    !.killAfterClose = s.closeSeen]
                 IN IF k.pc = "race"
                    THEN AfterRace(k, "timer", TimeoutExitCode)
                    ELSE k]
    /\ UNCHANGED notShell

\* lines 448-450: readFile(stdoutFile) done; close the stream; await unlink
ShellReadOut(c) ==
    /\ shell[c].pc = "readOut"
    /\ shell' = [shell EXCEPT ![c].pc = "unlinkOut",
                              ![c].stdout = FileText(shell[c].outSize),
                              ![c].outStream = "closed"]
    /\ UNCHANGED notShell

\* lines 450-451: unlink(stdoutFile) done; call readFile(stderrFile)
ShellUnlinkOut(c) ==
    /\ shell[c].pc = "unlinkOut"
    /\ shell' = [shell EXCEPT ![c].pc = "readErr", ![c].outFile = FALSE,
                              ![c].outSize = 0, ![c].errRead = TRUE]
    /\ UNCHANGED notShell

\* lines 451-453: readFile(stderrFile) done; close the stream; await unlink
ShellReadErr(c) ==
    /\ shell[c].pc = "readErr"
    /\ shell' = [shell EXCEPT ![c].pc = "unlinkErr",
                              ![c].stderr = FileText(shell[c].errSize),
                              ![c].errStream = "closed"]
    /\ UNCHANGED notShell

\* lines 453-455: unlink(stderrFile) done; return [code, stdout, stderr]
ShellUnlinkErr(c) ==
    /\ shell[c].pc = "unlinkErr"
    /\ shell' = [shell EXCEPT ![c].pc = "done", ![c].errFile = FALSE,
                              ![c].errSize = 0,
                              ![c].result = Some([code |-> shell[c].code[1],
                                                  stdout |-> shell[c].stdout,
                                                  stderr |-> shell[c].stderr])]
    /\ UNCHANGED notShell

(***************************************************************************)
(* gh, makeSuite and resolveQueries                                        *)
(***************************************************************************)
\* query identifiers a caller asks for
QueryIds == {"js/xss", "js/file-classifier"}

\* languages a caller names: one with a configured default pack, one without
Languages == {"javascript", "python"}

\* the packVersions table the instance was made with
PackVersions == [name \in {"codeql/javascript-queries"} |-> "1.2.5"]

getDefaultQueryPackName(language) == "codeql/" \o language \o "-queries"

\* defaultQueryPackName in this.packVersions (line 191)
HasDefaultQueryPackVersion(language) ==
    getDefaultQueryPackName(language) \in DOMAIN PackVersions

\* the .ql file an order-preserving resolver reports for a query id
PathOf(id) == "/packs/" \o id \o ".ql"

Range(seq) == {seq[i] : i \in DOMAIN seq}

\* the ...ids of one call
Batches == UNION {[1..n -> QueryIds] : n \in 1..MaxBatch}

\* the exit codes runAsyncShell returns
RunnerCodes ==
    {NormalizeCode(e) : e \in ExitCodes} \cup {TimeoutExitCode, CapExitCode}

\* a gh that never throws
GhThrowsNever(code) == FALSE

\* a gh that takes the runner's code 124 for success
GhThrowsBelowTimeout(code) == code # 0 /\ code # 124

\* code !== 0 (line 148)
GhThrows(code) == code # 0

\* the array an order-preserving resolver prints for a suite over these ids
ExactPaths(unresolved) == [i \in 1..Len(unresolved) |-> PathOf(unresolved[i])]

\* seq without its last element
AllButLast(seq) == SubSeq(seq, 1, Len(seq) - 1)

Reverse(seq) == [i \in 1..Len(seq) |-> seq[Len(seq) + 1 - i]]

\* seq without the later occurrences of its elements
Dedup(seq) ==
    LET upTo[i \in 0..Len(seq)] ==
            IF i = 0 THEN <<>>
            ELSE IF seq[i] \in Range(SubSeq(seq, 1, i - 1))
                 THEN upTo[i - 1]
                 ELSE Append(upTo[i - 1], seq[i])
    IN upTo[Len(seq)]

\* What JSON.parse makes of the stdout of `resolve queries`: a syntax error,
\* null, or an array of paths.  The tool is not part of this repository and
\* the code does not check its answer: the array may be the exact one (a
\* path per listed id, in order), one path short, without repetitions, or
\* in another order.
ResolverOutputs(unresolved) ==
    LET exact == ExactPaths(unresolved)
    IN {[kind |-> "garbage", paths |-> <<>>], [kind |-> "null", paths |-> <<>>]}
       \cup {[kind |-> "array", paths |-> ps] :
                ps \in {exact, AllButLast(exact), Dedup(exact), Reverse(exact)}}

\* resolved[i] of a JavaScript array (1-based here): undefined past the end
At(resolved, i) == IF i <= Len(resolved) THEN Some(resolved[i]) ELSE None

\* a filter that ignores the cache
UnresolvedAll(ids, cache) == ids

\* ids.filter((id) => !this.resolvedQueries.has(id)) (line 302)
Unresolved(ids, cache) == SelectSeq(ids, LAMBDA id : id \notin DOMAIN cache)

\* a suite that lists the identifiers in reverse
makeSuiteReversed(language, queryIds) ==
    << [queries |-> ".",
        from |-> getDefaultQueryPackName(language),
        version |-> PackVersions[getDefaultQueryPackName(language)]],
       [include |-> [id |-> [i \in 1..Len(queryIds) |->
                                queryIds[Len(queryIds) + 1 - i]]]] >>

\* the array makeSuite writes to the .qls file (lines 283-294)
makeSuite(language, queryIds) ==
    << [queries |-> ".",
        from |-> getDefaultQueryPackName(language),
        version |-> PackVersions[getDefaultQueryPackName(language)]],
       [include |-> [id |-> queryIds]] >>

\* a set() that replaces the map
CacheSetAlone(cache, id, value) == [k \in {id} |-> value]

\* this.resolvedQueries.set(id, value)
CacheSet(cache, id, value) ==
    [k \in DOMAIN cache \cup {id} |-> IF k = id THEN value ELSE cache[k]]

RECURSIVE FillFrom(_, _, _, _)
\* the loop of lines 322-324 from index i on
FillFrom(cache, unresolved, resolved, i) ==
    IF i > Len(unresolved)
    THEN cache
    ELSE FillFrom(CacheSet(cache, unresolved[i], At(resolved, i)),
                  unresolved, resolved, i + 1)

\* a loop that stores the first resolved path for every identifier
CacheFillFirst(cache, unresolved, resolved) ==
    [k \in DOMAIN cache \cup Range(unresolved) |->
        IF k \in Range(unresolved) THEN At(resolved, 1) ELSE cache[k]]

\* lines 322-324
CacheFill(cache, unresolved, resolved) == FillFrom(cache, unresolved, resolved, 1)

\* ids.map((id) => this.resolvedQueries.get(id)!) (line 327)
ResultOf(ids, cache) ==
    [i \in 1..Len(ids) |->
        IF ids[i] \in DOMAIN cache THEN cache[ids[i]] ELSE None]

IdleResolve ==
    [ pc |-> "idle",        \* idle, gh (awaiting this.gh), done, failed
      language |-> "",
      ids |-> <<>>,
      unresolved |-> <<>>,
      suiteFile |-> "none", \* the temporary .qls file: none, exists, removed
      suite |-> None,       \* the array written to it
      issued |-> FALSE,     \* gh codeql resolve queries <suite> was started
      nonzero |-> FALSE,    \* the runner reported a nonzero code for it
      resolved |-> None,    \* const resolved = JSON.parse(...)
      result |-> None,
      error |-> "" ]

\* lines 300-317, with makeSuite (279-297) and the start of gh (141-147):
\* filter the ids; with nothing to resolve return at once; otherwise create
\* the suite file (makeSuite throws after creating it when the language has
\* no pack version) and start the resolve command.
ResolveStart(r) ==
    /\ rq[r].pc = "idle"
    /\ \A q \in ResolveCalls : q < r => rq[q].pc # "idle"
    /\ \E language \in Languages, ids \in Batches :
          LET unresolved == Unresolved(ids, resolvedQueries)
              s == [rq[r] EXCEPT
                      !.language = language, !.ids = ids,
                      !.unresolved = unresolved]
          IN rq' = [rq EXCEPT ![r] =
                IF Len(unresolved) = 0
                THEN [s EXCEPT !.pc = "done",
                               !.result = Some(ResultOf(ids, resolvedQueries))]
                ELSE IF ~HasDefaultQueryPackVersion(language)
                THEN [s EXCEPT !.pc = "failed", !.suiteFile = "exists",
                               !.error = "No default query pack version found"]
                ELSE [s EXCEPT !.pc = "gh", !.suiteFile = "exists",
                               !.suite = Some(makeSuite(language, unresolved)),
                               !.issued = TRUE]]
    /\ UNCHANGED <<resolvedQueries, notResolve>>

\* lines 148-152: the command ended with a nonzero code (its own, or 124 of
\* the runner) and gh throws; resolveQueries rejects where it stands
ResolveGhThrows(r) ==
    /\ rq[r].pc = "gh"
    /\ \E code \in RunnerCodes :
          /\ GhThrows(code)
          /\ rq' = [rq EXCEPT ![r].pc = "failed",
                              ![r].nonzero = code # 0,
                              ![r].error = "Failed to execute: gh"]
    /\ UNCHANGED <<resolvedQueries, notResolve>>

\* lines 310-327: gh returned the stdout of the command; parse it, remove
\* the suite file, fill the cache, map the ids
ResolveGhReturns(r) ==
    /\ rq[r].pc = "gh"
    /\ \E code \in RunnerCodes, out \in ResolverOutputs(rq[r].unresolved) :
          /\ ~GhThrows(code)
          /\ CASE out.kind = "garbage" ->
                    /\ rq' = [rq EXCEPT ![r].pc = "failed",
                                        ![r].nonzero = code # 0,
                                        ![r].error = "SyntaxError"]
                    /\ UNCHANGED resolvedQueries
               [] out.kind = "null" ->
                    /\ rq' = [rq EXCEPT ![r].pc = "failed",
                                        ![r].nonzero = code # 0,
                                        ![r].suiteFile = "removed",
                                        ![r].error = "TypeError"]
                    /\ UNCHANGED resolvedQueries
               [] out.kind = "array" ->
                    /\ resolvedQueries' =
                          CacheFill(resolvedQueries, rq[r].unresolved, out.paths)
                    /\ rq' = [rq EXCEPT
                                ![r].pc = "done",
                                ![r].nonzero = code # 0,
                                ![r].suiteFile = "removed",
                                ![r].resolved = Some(out.paths),
                                ![r].result =
                                    Some(ResultOf(rq[r].ids, resolvedQueries'))]
    /\ UNCHANGED notResolve

(***************************************************************************)
(* CodeQL.make and the version check                                       *)
(***************************************************************************)

\* the timeout argument of make is a JavaScript number; the model counts it
\* in thousandths, so that -0.5 is a value: Thousandths(-1) is the number -1
Thousandths(n) == n * 1000

\* timeout arguments a caller passes to make: -2, -1, -0.5, 0, 0.5, 2
MakeTimeouts ==
    {Thousandths(-2), Thousandths(-1), -500, 0, 500, Thousandths(2)}

\* timeout < -1 (line 100)
TimeoutRejected(t) == t < Thousandths(-1)

TimeoutMessage == "Timeout must be -1 or a positive number."

CannotFindGh == "Cannot find gh CLI."

\* the versions the CodeQL CLI can be at, and the ones a caller asks for
Versions == {"2.20.0", "2.19.0"}

Whitespace == {" ", "\n"}

\* what `gh codeql version --format terse` prints, as a sequence of tokens
VersionOutputs ==
    {<<v, "\n">> : v \in Versions} \cup {<<" ", "2.20.0">>, <<>>}

RECURSIVE TrimStart(_)
TrimStart(s) ==
    IF s # <<>> /\ Head(s) \in Whitespace THEN TrimStart(Tail(s)) ELSE s

RECURSIVE TrimEnd(_)
TrimEnd(s) ==
    IF s # <<>> /\ s[Len(s)] \in Whitespace
    THEN TrimEnd(SubSeq(s, 1, Len(s) - 1))
    ELSE s

\* String.prototype.trim (line 161)
Trim(s) == TrimEnd(TrimStart(s))

\* what `gh extensions list` prints, one token per installed extension
ExtensionLists == {<<>>, <<"github/gh-codeql">>, <<"dlvhdr/gh-dash">>}

\* a check that never finds the extension
IncludesCodeQLNever(list) == FALSE

\* availableExtensions.includes("github/gh-codeql") (line 132)
IncludesCodeQL(list) == "github/gh-codeql" \in Range(list)

GhVersionCmd == "gh --version"

ExtListCmd == "gh extensions list"

ExtInstallCmd == "gh extensions install github/gh-codeql"

CliVersionCmd == "gh codeql version --format terse"

SetChannelCmd == "gh codeql set-channel release"

SetVersionCmd(version) == "gh codeql set-version " \o version

\* `Failed to execute: gh ${args.join(" ")}` (line 149)
FailedToExecute(cmd) == "Failed to execute: " \o cmd

\* `Failed to install CodeQL version ${version}` (line 174)
FailedToInstall(version) == "Failed to install CodeQL version " \o version

\* a version query that reports any version passes
VersionMatchesAlways(reported, version) == TRUE

\* curVersion !== version negated (lines 167, 173)
VersionMatches(reported, version) == reported = <<version>>

\* the two switch commands issued the other way round
SwitchCommandsSwapped(version) == <<SetVersionCmd(version), SetChannelCmd>>

\* the switch commands in the order of lines 171-172
SwitchCommands(version) == <<SetChannelCmd, SetVersionCmd(version)>>

\* an instance a caller has from the moment it is constructed
HandedOutEarly(pc) == pc \notin {"idle", "failed"}

\* the caller holds the instance once make's promise is fulfilled (line 105)
HandedOut(pc) == pc = "returned"

\* construction before make is called
IdleMake ==
    [pc |-> "idle",          \* where make is: idle, an awaited gh call,
                             \* returned, failed or uncaught
     timeout |-> 0,          \* the timeout argument, in thousandths
     version |-> "",         \* codeQlVersion
     pass |-> 1,             \* 1: the query of line 166, 2: the one of line 173
     switch |-> 0,           \* how many switch commands have succeeded
     log |-> <<>>,           \* the gh commands issued so far, in order
     reports |-> <<>>,       \* what each version query reported, trimmed
     lists |-> <<>>,         \* what each `extensions list` printed
     code |-> None,          \* the code runAsyncShell returned to the last
                             \* gh call that settled
     spawnFailed |-> FALSE,  \* the process of the awaited call emitted 'error'
     spawnErrors |-> 0,      \* 'error' events delivered so far
     error |-> "",           \* the message make's promise is rejected with
     ops |-> 0]              \* facade operations started on the instance

\* the gh calls make awaits
MakeAwaits ==
    {"ghVersion", "extList", "extInstall", "cliVersion", "switch"}

\* The exit codes the call make awaits can return.  A process whose spawn
\* failed emits no close event (lines 415-421 never run): only the timer of
\* lines 428-435 can end the race, and only when it was armed.
GhCodes(m) ==
    IF m.spawnFailed
    THEN IF ArmsTimer(m.timeout) THEN {TimeoutExitCode} ELSE {}
    ELSE RunnerCodes

\* this.gh(args): the command is issued and make waits for it
IssueGh(m, pc, cmd) ==
    [m EXCEPT !.pc = pc, !.log = Append(@, cmd), !.spawnFailed = FALSE]

\* const [code, out, err] = await runAsyncShell(...) (lines 142-147)
Settled(m, code) == [m EXCEPT !.code = Some(code)]

\* a throw that leaves make: the promise is rejected
Reject(m, message) == [m EXCEPT !.pc = "failed", !.error = message]

\* make is called (lines 95-104): validation, construction, and the first
\* gh call of ensureCliVersion -> getCliVersion ->
\* ensureGhCliExtensionInstalled -> ensureGhCliInstalled
MakeStart ==
    /\ mk.pc = "idle"
    /\ \E t \in MakeTimeouts, v \in Versions :
          LET m == [mk EXCEPT !.timeout = t, !.version = v]
          IN mk' = IF TimeoutRejected(t)
                   THEN Reject(m, TimeoutMessage)
                   ELSE IssueGh(m, "ghVersion", GhVersionCmd)
    /\ UNCHANGED notMake

\* gh(["--version"]) settles (lines 119-124), then line 130
GhVersionReturns ==
    /\ mk.pc = "ghVersion"
    /\ \E code \in GhCodes(mk) :
          LET g == Settled(mk, code)
          IN mk' = IF GhThrows(code)
                   THEN Reject(g, CannotFindGh)
                   ELSE IssueGh(g, "extList", ExtListCmd)
    /\ UNCHANGED notMake

\* gh(["extensions", "list"]) settles (lines 130-137, 160)
ExtListReturns ==
    /\ mk.pc = "extList"
    /\ \E code \in GhCodes(mk), list \in ExtensionLists :
          LET g == Settled(mk, code)
              m == [g EXCEPT !.lists = Append(@, list)]
          IN mk' = IF GhThrows(code)
                   THEN Reject(g, FailedToExecute(ExtListCmd))
                   ELSE IF IncludesCodeQL(list)
                        THEN IssueGh(m, "cliVersion", CliVersionCmd)
                        ELSE IssueGh(m, "extInstall", ExtInstallCmd)
    /\ UNCHANGED notMake

\* gh(["extensions", "install", "github/gh-codeql"]) settles (lines 136, 160)
ExtInstallReturns ==
    /\ mk.pc = "extInstall"
    /\ \E code \in GhCodes(mk) :
          LET g == Settled(mk, code)
          IN mk' = IF GhThrows(code)
                   THEN Reject(g, FailedToExecute(ExtInstallCmd))
                   ELSE IssueGh(g, "cliVersion", CliVersionCmd)
    /\ UNCHANGED notMake

\* gh(["codeql", "version", ...]) settles (lines 159-161), then the
\* comparison of line 167 or of line 173
CliVersionReturns ==
    /\ mk.pc = "cliVersion"
    /\ \E code \in GhCodes(mk), out \in VersionOutputs :
          LET g == Settled(mk, code)
              m == [g EXCEPT !.reports = Append(@, Trim(out))]
          IN mk' = IF GhThrows(code)
                   THEN Reject(g, FailedToExecute(CliVersionCmd))
                   ELSE IF VersionMatches(Trim(out), mk.version)
                        THEN [m EXCEPT !.pc = "returned"]
                        ELSE IF mk.pass = 1
                             THEN IssueGh(m, "switch",
                                          SwitchCommands(mk.version)[1])
                             ELSE Reject(m, FailedToInstall(mk.version))
    /\ UNCHANGED notMake

\* set-channel or set-version settles (lines 171-173)
SwitchReturns ==
    /\ mk.pc = "switch"
    /\ \E code \in GhCodes(mk) :
          LET cmds == SwitchCommands(mk.version)
              g == Settled(mk, code)
              m == [g EXCEPT !.switch = @ + 1]
          IN mk' = IF GhThrows(code)
                   THEN Reject(g, FailedToExecute(cmds[mk.switch + 1]))
                   ELSE IF m.switch < Len(cmds)
                        THEN IssueGh(m, "switch", cmds[m.switch + 1])
                        ELSE IssueGh([m EXCEPT !.pass = 2],
                                     "ghVersion", GhVersionCmd)
    /\ UNCHANGED notMake

\* cp.spawn cannot run gh (line 407): the child emits 'error' and no close
\* event.  runAsyncShell registers no 'error' listener (lines 414-422), so
\* the event is thrown as an uncaught exception: it ends the Node.js
\* process, or the embedding application's uncaughtException handler
\* swallows it and the call goes on waiting.
SpawnError ==
    /\ mk.pc \in MakeAwaits
    /\ ~mk.spawnFailed
    /\ \/ mk' = [mk EXCEPT !.pc = "uncaught", !.spawnFailed = TRUE,
                            !.spawnErrors = @ + 1]
       \/ mk' = [mk EXCEPT !.spawnFailed = TRUE, !.spawnErrors = @ + 1]
    /\ UNCHANGED notMake

\* the caller starts a facade operation on the instance it holds
FacadeCall ==
    /\ HandedOut(mk.pc)
    /\ mk.ops < MaxOps
    /\ mk' = [mk EXCEPT !.ops = @ + 1]
    /\ UNCHANGED notMake

(***************************************************************************)
(* The language tables and the functions over them                         *)
(***************************************************************************)

\* lookups made in one behaviour
MaxLookups == 2

\* the properties of the object literal LanguageIdToLanguage in the order
\* they are written, a table that gives two ids the same name
LanguageEntriesShared ==
    << <<"cpp", "cpp">>, <<"cs", "javascript">>, <<"go", "go">>,
       <<"java", "java">>, <<"js", "javascript">>, <<"py", "python">>,
       <<"rb", "ruby">>, <<"rust", "rust">>, <<"swift", "swift">>,
       <<"actions", "actions">> >>

\* Object.entries(LanguageIdToLanguage): the properties of the object
\* literal in the order they are written (lines 14-25)
LanguageEntries ==
    << <<"cpp", "cpp">>, <<"cs", "csharp">>, <<"go", "go">>,
       <<"java", "java">>, <<"js", "javascript">>, <<"py", "python">>,
       <<"rb", "ruby">>, <<"rust", "rust">>, <<"swift", "swift">>,
       <<"actions", "actions">> >>

RECURSIVE ObjectFromEntries(_, _)
\* Object.fromEntries(entries): the properties are set in order, a later
\* entry replaces an earlier one of the same key
ObjectFromEntries(entries, object) ==
    IF entries = <<>> THEN object
    ELSE ObjectFromEntries(Tail(entries),
                           CacheSet(object, entries[1][1], entries[1][2]))

\* the keys of a table without its last one
ObjectKeysButLast(entries) ==
    [i \in 1..(Len(entries) - 1) |-> entries[i][1]]

\* Object.keys of an object with these entries
ObjectKeys(entries) == [i \in DOMAIN entries |-> entries[i][1]]

\* Object.values of an object with these entries
ObjectValues(entries) == [i \in DOMAIN entries |-> entries[i][2]]

\* the constant LanguageIdToLanguage (lines 14-25)
LanguageIdToLanguage == ObjectFromEntries(LanguageEntries, <<>>)

\* Object.values(LanguageIdToLanguage) (lines 34-35)
SupportedLanguages == ObjectValues(LanguageEntries)

\* Object.keys(LanguageIdToLanguage) (lines 38-40)
SupportedLanguageIds == ObjectKeys(LanguageEntries)

\* Object.fromEntries of the entries with id and language swapped
\* (lines 43-49)
LanguageToLanguageId ==
    ObjectFromEntries([i \in DOMAIN LanguageEntries |->
                          <<LanguageEntries[i][2], LanguageEntries[i][1]>>],
                      <<>>)

\* SupportedLanguages.includes(language) (lines 54-56)
isSupportedLanguage(language) == language \in Range(SupportedLanguages)

\* SupportedLanguageIds.includes(id) (lines 61-63)
isSupportedLanguageId(id) == id \in Range(SupportedLanguageIds)

\* A string is a sequence of pieces: the piece "/" is one slash, every other
\* piece is a text without a slash.
Slash == "/"

\* the query ids languageFromQueryId is called with
QueryIdStrings ==
    { <<"js", Slash, "xss">>, <<"py", Slash, "sql-injection">>,
      <<"rust", Slash, "a", Slash, "b">>, <<"nope", Slash, "xss">>,
      <<"js">>, <<"js", "x", Slash, "xss">>, <<"js", Slash>>,
      <<Slash, "js">>, <<"xss", Slash, "js">>, <<>>, <<"javascript">> }

RECURSIVE Concat(_)
\* the string made of the pieces
Concat(pieces) ==
    IF pieces = <<>> THEN "" ELSE pieces[1] \o Concat(Tail(pieces))

RECURSIVE UpToSlash(_)
\* the pieces before the first slash, all pieces when there is no slash
UpToSlash(string) ==
    IF string = <<>> \/ string[1] = Slash THEN <<>>
    ELSE <<string[1]>> \o UpToSlash(Tail(string))

\* const [langId] = queryId.split("/") (line 73): the first element of the
\* split, the text before the first slash or the whole string
FirstOfSplit(queryId) == Concat(UpToSlash(queryId))

\* languageFromQueryId (lines 72-77); None is undefined
languageFromQueryId(queryId) ==
    LET langId == FirstOfSplit(queryId)
    IN IF isSupportedLanguageId(langId)
       THEN Some(LanguageIdToLanguage[langId])
       ELSE None

\* the strings the membership checks are called with
LanguageNames == Range(SupportedLanguages) \cup {"js", "nope"}
LanguageIdNames == Range(SupportedLanguageIds) \cup {"javascript", "nope"}

\* the lookups with one more recorded: the argument as a string of pieces,
\* the value returned (None is undefined) or the answer of a check
Recorded(op, in, out, yes) ==
    Append(lg, [op |-> op, in |-> in, out |-> out, yes |-> yes])

\* LanguageIdToLanguage[LanguageToLanguageId[language]]
LanguageRoundTrip(language) ==
    /\ Len(lg) < MaxLookups
    /\ lg' = Recorded("LanguageRoundTrip", <<language>>,
                      Some(LanguageIdToLanguage[LanguageToLanguageId[language]]),
                      TRUE)
    /\ UNCHANGED notLang

\* LanguageToLanguageId[LanguageIdToLanguage[id]]
IdRoundTrip(id) ==
    /\ Len(lg) < MaxLookups
    /\ lg' = Recorded("IdRoundTrip", <<id>>,
                      Some(LanguageToLanguageId[LanguageIdToLanguage[id]]),
                      TRUE)
    /\ UNCHANGED notLang

\* isSupportedLanguage(language)
CheckLanguage(language) ==
    /\ Len(lg) < MaxLookups
    /\ lg' = Recorded("isSupportedLanguage", <<language>>, None,
                      isSupportedLanguage(language))
    /\ UNCHANGED notLang

\* isSupportedLanguageId(id)
CheckLanguageId(id) ==
    /\ Len(lg) < MaxLookups
    /\ lg' = Recorded("isSupportedLanguageId", <<id>>, None,
                      isSupportedLanguageId(id))
    /\ UNCHANGED notLang

\* languageFromQueryId(queryId)
LanguageFromQueryId(queryId) ==
    /\ Len(lg) < MaxLookups
    /\ lg' = Recorded("languageFromQueryId", queryId,
                      languageFromQueryId(queryId), TRUE)
    /\ UNCHANGED notLang

(***************************************************************************)
(* The temporary files of overlapping runAsyncShell calls                  *)
(***************************************************************************)

\* runAsyncShell calls that may overlap, and the file names tmp can draw
MaxTmpCalls == 2
MaxTmpNames == 4

TmpCalls == 1..MaxTmpCalls
TmpNames == 1..MaxTmpNames

\* no name yet
NoName == 0

\* a name generator that only checks that no such file exists
tmpNameSyncNotOnDisk(disk, given) == TmpNames \ DOMAIN disk

\* tmp.tmpNameSync() (lines 399, 403): a name built from the process id and
\* 12 random characters, for which no file exists at the moment of the call;
\* a draw never repeats a name drawn before
tmpNameSync(disk, given) == TmpNames \ (DOMAIN disk \cup given)

\* one runAsyncShell call before it starts
IdleTmp ==
    [pc |-> "idle",       \* idle, openOut, openErr, race, readOut, unlinkOut,
                          \* readErr, unlinkErr, done
     stdoutFile |-> NoName, stderrFile |-> NoName,
     proc |-> "none",     \* none, running, closed
     stdout |-> {},       \* the calls whose processes wrote what was read
     stderr |-> {}]

\* the temporary directory: file name -> the calls whose processes wrote to
\* the file; and the calls
IdleTmpFiles ==
    [given |-> {}, disk |-> <<>>, calls |-> [k \in TmpCalls |-> IdleTmp]]

\* createWriteStream's open (flag "w"): the file exists and is empty
Created(disk, name) ==
    [n \in DOMAIN disk \cup {name} |-> IF n = name THEN {} ELSE disk[n]]

\* a write of call k's process to the file, if it is still there
Written(disk, name, k) ==
    [n \in DOMAIN disk |-> IF n = name THEN disk[n] \cup {k} ELSE disk[n]]

\* what readFile returns for the name
ReadFile(disk, name) == IF name \in DOMAIN disk THEN disk[name] ELSE {}

\* unlink(name)
Unlinked(disk, name) == [n \in DOMAIN disk \ {name} |-> disk[n]]

\* lines 399-401: name the stdout file, create its stream, await "open"
TmpStart(k) ==
    /\ tf.calls[k].pc = "idle"
    /\ \A j \in TmpCalls : j < k => tf.calls[j].pc # "idle"
    /\ \E name \in tmpNameSync(tf.disk, tf.given) :
          tf' = [tf EXCEPT !.given = @ \cup {name},
                           !.calls[k].pc = "openOut",
                           !.calls[k].stdoutFile = name]
    /\ UNCHANGED notTmp

\* lines 401-405: the stdout stream is open, its file exists; name the
\* stderr file, create its stream, await "open"
TmpOpenOut(k) ==
    /\ tf.calls[k].pc = "openOut"
    /\ \E name \in tmpNameSync(Created(tf.disk, tf.calls[k].stdoutFile),
                               tf.given) :
          tf' = [tf EXCEPT !.given = @ \cup {name},
                           !.disk = Created(@, tf.calls[k].stdoutFile),
                           !.calls[k].pc = "openErr",
                           !.calls[k].stderrFile = name]
    /\ UNCHANGED notTmp

\* lines 405-438: the stderr stream is open, its file exists; spawn the
\* process with the two streams as its stdout and stderr; await the race
TmpSpawn(k) ==
    /\ tf.calls[k].pc = "openErr"
    /\ tf' = [tf EXCEPT !.disk = Created(@, tf.calls[k].stderrFile),
                        !.calls[k].pc = "race",
                        !.calls[k].proc = "running"]
    /\ UNCHANGED notTmp

\* the process of call k writes to its stdout or to its stderr
TmpProcWrite(k) ==
    /\ tf.calls[k].proc = "running"
    /\ \E name \in {tf.calls[k].stdoutFile, tf.calls[k].stderrFile} :
          /\ k \notin ReadFile(tf.disk, name)
          /\ tf' = [tf EXCEPT !.disk = Written(@, name, k)]
    /\ UNCHANGED notTmp

\* lines 415-421, 438-448: close settles the race; readFile(stdoutFile) is
\* started
TmpProcClose(k) ==
    /\ tf.calls[k].proc = "running"
    /\ tf' = [tf EXCEPT !.calls[k].proc = "closed",
                        !.calls[k].pc = "readOut"]
    /\ UNCHANGED notTmp

\* lines 448-450: readFile(stdoutFile) done; await unlink(stdoutFile)
TmpReadOut(k) ==
    /\ tf.calls[k].pc = "readOut"
    /\ tf' = [tf EXCEPT !.calls[k].pc = "unlinkOut",
                        !.calls[k].stdout =
                            ReadFile(tf.disk, tf.calls[k].stdoutFile)]
    /\ UNCHANGED notTmp

\* lines 450-451: the stdout file is unlinked; readFile(stderrFile) started
TmpUnlinkOut(k) ==
    /\ tf.calls[k].pc = "unlinkOut"
    /\ tf' = [tf EXCEPT !.disk = Unlinked(@, tf.calls[k].stdoutFile),
                        !.calls[k].pc = "readErr"]
    /\ UNCHANGED notTmp

\* lines 451-453: readFile(stderrFile) done; await unlink(stderrFile)
TmpReadErr(k) ==
    /\ tf.calls[k].pc = "readErr"
    /\ tf' = [tf EXCEPT !.calls[k].pc = "unlinkErr",
                        !.calls[k].stderr =
                            ReadFile(tf.disk, tf.calls[k].stderrFile)]
    /\ UNCHANGED notTmp

\* lines 453-455: the stderr file is unlinked; return [code, stdout, stderr]
TmpUnlinkErr(k) ==
    /\ tf.calls[k].pc = "unlinkErr"
    /\ tf' = [tf EXCEPT !.disk = Unlinked(@, tf.calls[k].stderrFile),
                        !.calls[k].pc = "done"]
    /\ UNCHANGED notTmp

(***************************************************************************)
(* gh with spawn options, runCommand, makeSuite's file and classifyFiles   *)
(***************************************************************************)

\* `${LanguageToLanguageId[language]}/file-classifier` (line 340)
ClassifierId(language) == LanguageToLanguageId[language] \o "/file-classifier"

\* { a, ...b }: the keys of b win (lines 408-409)
Spread(a, b) ==
    [k \in DOMAIN a \cup DOMAIN b |-> IF k \in DOMAIN b THEN b[k] ELSE a[k]]

\* the stdio cp.spawn gets when the caller passes no options (line 408)
DefaultSpawnOptions ==
    [stdio |-> <<"ignore", "stdoutStream", "stderrStream">>]

\* the options gh is called with when it is called without any (line 141)
NoOptions == [cwd \in {} |-> ""]

\* the options of runCommand (lines 217-226)
RunCommandOptions(cwd) ==
    [cwd |-> cwd,
     stdio |-> <<"ignore", "ignore", "inherit">>,
     env |-> "process.env + buildless"]

\* what reaches a temporary file: the text of a stream that cp.spawn was
\* told to write to that file's stream, and nothing otherwise
Captured(stdio, stream, text) == IF stdio = stream THEN text ELSE ""

\* what the spawned command prints on stderr
StderrTexts == {"", "A fatal error occurred"}

\* what one spawned command does: its exit code (none when a signal ended
\* it), what it printed on stdout and stderr, and whether the timer of the
\* call fired before its close event
Behaviours(t, stdouts) ==
    [exit : ExitCodes, out : stdouts, err : StderrTexts,
     timerFirst : IF ArmsTimer(t) THEN BOOLEAN ELSE {FALSE}]

\* [code, stdout, stderr] of runAsyncShell("gh", args, options, t) for a
\* command that behaves like b and stays under the size cap (lines 407-455)
RunAsyncShell(options, b) ==
    LET stdio == Spread(DefaultSpawnOptions, options).stdio
    IN [code |-> IF b.timerFirst THEN TimeoutExitCode
                 ELSE NormalizeCode(b.exit),
        stdout |-> Captured(stdio[2], "stdoutStream", b.out),
        stderr |-> Captured(stdio[3], "stderrStream", b.err)]

\* an error with no cause
NoError == [message |-> "", cause |-> None]

\* new Error(`Failed to execute: gh ...`, { cause: err }) (lines 149-151)
GhError(cmd, result) ==
    [message |-> FailedToExecute(cmd), cause |-> Some(result.stderr)]

\* `No default query pack version found for ${language}` (line 194)
MissingPackVersion(language) ==
    "No default query pack version found for " \o language

\* `Could not resolve file-classifier query for ${language}` (lines 343-345)
ClassifierUnresolved(language) ==
    "Could not resolve file-classifier query for " \o language

\* JSON text as a sequence of tokens: punctuation and string literals
Punct(c) == [kind |-> "punct", text |-> c]

Str(s) == [kind |-> "string", text |-> s]

RECURSIVE JoinComma(_)
\* the elements of an array of strings, separated by commas
JoinComma(seq) ==
    IF seq = <<>> THEN <<>>
    ELSE IF Len(seq) = 1 THEN <<Str(seq[1])>>
    ELSE <<Str(seq[1]), Punct(",")>> \o JoinComma(Tail(seq))

\* JSON.stringify of the suite array of lines 283-294
JSONStringifySuite(suite) ==
    <<Punct("["), Punct("{"),
      Str("queries"), Punct(":"), Str(suite[1].queries), Punct(","),
      Str("from"), Punct(":"), Str(suite[1].from), Punct(","),
      Str("version"), Punct(":"), Str(suite[1].version),
      Punct("}"), Punct(","), Punct("{"),
      Str("include"), Punct(":"), Punct("{"),
      Str("id"), Punct(":"), Punct("[")>>
    \o JoinComma(suite[2].include.id)
    \o <<Punct("]"), Punct("}"), Punct("}"), Punct("]")>>

\* the text of each token of a sequence
Texts(tokens) == [i \in DOMAIN tokens |-> tokens[i].text]

\* what a JSON parser makes of the text of a suite file: the two objects
\* with the values that follow their keys, or nothing when the text is not
\* of that shape
JSONParseSuite(tokens) ==
    LET strs == Texts(SelectSeq(tokens, LAMBDA t : t.kind = "string"))
        puncts == Texts(SelectSeq(tokens, LAMBDA t : t.kind = "punct"))
        n == Len(strs) - 8
        commas == IF n > 1 THEN n - 1 ELSE 0
    IN IF /\ Len(strs) >= 8
          /\ <<strs[1], strs[3], strs[5], strs[7], strs[8]>> =
                 <<"queries", "from", "version", "include", "id">>
          /\ Len(puncts) = 18 + commas
          /\ puncts[1] = "[" /\ puncts[Len(puncts)] = "]"
       THEN Some(<<[queries |-> strs[2], from |-> strs[4],
                    version |-> strs[6]],
                   [include |-> [id |-> SubSeq(strs, 9, Len(strs))]]>>)
       ELSE None

\* the arguments ...queryIds of a makeSuite call: any number up to MaxBatch
SuiteBatches == UNION {[1..n -> QueryIds] : n \in 0..MaxBatch}

\* makeSuite before it is called
IdleSuite ==
    [pc |-> "idle",        \* idle, done (a handle was returned) or failed
     language |-> "",
     queryIds |-> <<>>,
     file |-> "none",      \* the temporary .qls file: none or exists
     content |-> <<>>,     \* the tokens written to the file
     error |-> ""]

\* a lookup that finds no pack version for any language
getDefaultQueryPackVersionThrowsAlways(language) == TRUE

\* getDefaultQueryPackVersion throws (lines 191-194)
getDefaultQueryPackVersionThrows(language) ==
    ~HasDefaultQueryPackVersion(language)

\* one makeSuite call (lines 279-297): the temporary file is created first
\* (line 280); getDefaultQueryPackVersion may then throw while the argument
\* of writeFileSync is evaluated (line 287)
MakeSuiteCall(k) ==
    /\ su[k].pc = "idle"
    /\ \A j \in 1..(k - 1) : su[j].pc # "idle"
    /\ \E language \in Languages, queryIds \in SuiteBatches :
          LET s == [su[k] EXCEPT !.language = language,
                                 !.queryIds = queryIds,
                                 !.file = "exists"]
          IN su' = [su EXCEPT ![k] =
                 IF getDefaultQueryPackVersionThrows(language)
                 THEN [s EXCEPT !.pc = "failed",
                                !.error = MissingPackVersion(language)]
                 ELSE [s EXCEPT !.pc = "done",
                                !.content = JSONStringifySuite(
                                                makeSuite(language, queryIds))]]
    /\ UNCHANGED notSuite

ResolveCmd == "gh codeql resolve queries --format=json"

QueryRunCmd == "gh codeql query run"

DecodeCmd == "gh codeql bqrs decode"

\* the files and the classifications a decoded result can name
SourceFiles == {"/src/a.js", "/src/a.test.js"}

Classifications == {"test", "generated"}

\* the tuples of a decoded `#select`: [{label}, string] (line 380)
Tuples == {<<[label |-> f], c>> : f \in SourceFiles, c \in Classifications}

\* what `bqrs decode` leaves in the .json file: text that is not JSON, an
\* object without `#select`, or an object with a list of tuples
DecodedFiles ==
    {[kind |-> "garbage", tuples |-> <<>>],
     [kind |-> "noSelect", tuples |-> <<>>]}
    \cup {[kind |-> "select", tuples |-> ts] :
             ts \in UNION {[1..n -> Tuples] : n \in 0..MaxTuples}}

RECURSIVE MapFromLast(_, _)
\* a map in which the first tuple of a label wins
MapFromLast(tuples, m) ==
    IF tuples = <<>> THEN m
    ELSE MapFromLast(SubSeq(tuples, 1, Len(tuples) - 1),
                     CacheSet(m, tuples[Len(tuples)][1].label,
                              tuples[Len(tuples)][2]))

RECURSIVE MapFrom(_, _)
\* new Map(entries): the entries are set in order, a later one replaces an
\* earlier one of the same key
MapFrom(tuples, m) ==
    IF tuples = <<>> THEN m
    ELSE MapFrom(Tail(tuples), CacheSet(m, tuples[1][1].label, tuples[1][2]))

\* a result map built back to front
TupleMapFirstWins(tuples) == MapFromLast(tuples, <<>>)

\* new Map(tuples.map((tuple) => [tuple[0].label, tuple[1]])) (lines 387-389)
TupleMap(tuples) == MapFrom(tuples, <<>>)

\* classifyFiles before it is called
IdleClassify ==
    [pc |-> "idle",          \* idle, resolve, queryRun, decode (the awaited
                             \* command), done or failed
     calls |-> 0,            \* classifyFiles calls started so far
     language |-> "",
     unresolved |-> <<>>,    \* the unresolved ids of its resolveQueries
     classifier |-> None,    \* the path resolveQueries returned
     suiteFile |-> "none",   \* none, exists or removed
     bqrsFile |-> "none",
     jsonFile |-> "none",
     log |-> <<>>,           \* the commands this call has issued
     last |-> None,          \* what the last finished command did
     tuples |-> None,        \* the tuples read from the .json file
     error |-> NoError,
     result |-> None]

\* what is remembered of a command that has settled
Finished(cmd, b) ==
    [cmd |-> cmd, exit |-> b.exit, err |-> b.err, timerFirst |-> b.timerFirst]

\* a throw that leaves classifyFiles
ClassifyFails(c, error) == [c EXCEPT !.pc = "failed", !.error = error]

\* a command is issued with gh and awaited
ClassifyIssues(c, pc, cmd) == [c EXCEPT !.pc = pc, !.log = Append(@, cmd)]

\* a check that lets an unresolved classifier through
ClassifierMissingNever(classifier) == FALSE

\* !classifier (line 342)
ClassifierMissing(classifier) == classifier = None

\* lines 338-361: resolveQueries has returned; check the classifier, create
\* the .bqrs file and start `query run`
AfterResolve(c, cache) ==
    LET classifier == ResultOf(<<ClassifierId(c.language)>>, cache)[1]
        d == [c EXCEPT !.classifier = classifier]
    IN IF ClassifierMissing(classifier)
       THEN ClassifyFails(d, [message |-> ClassifierUnresolved(c.language),
                              cause |-> None])
       ELSE ClassifyIssues([d EXCEPT !.bqrsFile = "exists"],
                           "queryRun", QueryRunCmd)

\* classifyFiles is called (lines 336-341, 300-317), after every earlier
\* call of the caller has settled
ClassifyStart ==
    /\ cf.pc \in {"idle", "done", "failed"}
    /\ cf.calls < MaxClassifyCalls
    /\ \E language \in Languages :
          LET unresolved ==
                  Unresolved(<<ClassifierId(language)>>, resolvedQueries)
              c == [IdleClassify EXCEPT !.calls = cf.calls + 1,
                                        !.language = language,
                                        !.unresolved = unresolved]
          IN cf' = IF Len(unresolved) = 0
                   THEN AfterResolve(c, resolvedQueries)
                   ELSE IF getDefaultQueryPackVersionThrows(language)
                   THEN ClassifyFails([c EXCEPT !.suiteFile = "exists"],
                                      [message |-> MissingPackVersion(language),
                                       cause |-> None])
                   ELSE ClassifyIssues([c EXCEPT !.suiteFile = "exists"],
                                       "resolve", ResolveCmd)
    /\ UNCHANGED <<resolvedQueries, notClassify>>

\* `resolve queries` settles (lines 142-153, 310-327, 338-361)
ClassifyResolveReturns ==
    /\ cf.pc = "resolve"
    /\ \E b \in Behaviours(timeout, ResolverOutputs(cf.unresolved)) :
          LET result == RunAsyncShell(NoOptions, b)
              c == [cf EXCEPT !.last = Some(Finished(ResolveCmd, b))]
              out == result.stdout
          IN IF GhThrows(result.code)
             THEN /\ cf' = ClassifyFails(c, GhError(ResolveCmd, result))
                  /\ UNCHANGED resolvedQueries
             ELSE CASE out.kind = "garbage" ->
                         /\ cf' = ClassifyFails(c, [message |-> "SyntaxError",
                                                    cause |-> None])
                         /\ UNCHANGED resolvedQueries
                    [] out.kind = "null" ->
                         /\ cf' = ClassifyFails(
                                      [c EXCEPT !.suiteFile = "removed"],
                                      [message |-> "TypeError",
                                       cause |-> None])
                         /\ UNCHANGED resolvedQueries
                    [] out.kind = "array" ->
                         /\ resolvedQueries' =
                                CacheFill(resolvedQueries, cf.unresolved,
                                          out.paths)
                         /\ cf' = AfterResolve(
                                      [c EXCEPT !.suiteFile = "removed"],
                                      resolvedQueries')
    /\ UNCHANGED notClassify

\* `query run` settles (lines 350-374)
ClassifyQueryRunReturns ==
    /\ cf.pc = "queryRun"
    /\ \E b \in Behaviours(timeout, {""}) :
          LET result == RunAsyncShell(RunCommandOptions("db"), b)
              c == [cf EXCEPT !.last = Some(Finished(QueryRunCmd, b))]
          IN cf' = IF GhThrows(result.code)
                   THEN ClassifyFails(c, GhError(QueryRunCmd, result))
                   ELSE ClassifyIssues([c EXCEPT !.jsonFile = "exists"],
                                       "decode", DecodeCmd)
    /\ UNCHANGED <<resolvedQueries, notClassify>>

\* `bqrs decode` settles (lines 365-389): read and parse the .json file,
\* remove both files, build the map
ClassifyDecodeReturns ==
    /\ cf.pc = "decode"
    /\ \E b \in Behaviours(timeout, {""}), file \in DecodedFiles :
          LET result == RunAsyncShell(RunCommandOptions("db"), b)
              c == [cf EXCEPT !.last = Some(Finished(DecodeCmd, b))]
              removed == [c EXCEPT !.bqrsFile = "removed",
                                   !.jsonFile = "removed"]
          IN cf' = IF GhThrows(result.code)
                   THEN ClassifyFails(c, GhError(DecodeCmd, result))
                   ELSE CASE file.kind = "garbage" ->
                               ClassifyFails(c, [message |-> "SyntaxError",
                                                 cause |-> None])
                          [] file.kind = "noSelect" ->
                               ClassifyFails(removed,
                                             [message |-> "TypeError",
                                              cause |-> None])
                          [] file.kind = "select" ->
                               [removed EXCEPT
                                   !.pc = "done",
                                   !.tuples = Some(file.tuples),
                                   !.result = Some(TupleMap(file.tuples))]
    /\ UNCHANGED <<resolvedQueries, notClassify>>

CreateDatabaseCmd == "gh codeql database create"

AnalyzeDatabaseCmd == "gh codeql database analyze"

\* createDatabase is called (lines 235-251, 210-217), after every earlier
\* call of the caller has settled: runCommand issues the command
CreateDatabase ==
    /\ cf.pc \in {"idle", "done", "failed"}
    /\ cf.calls < MaxClassifyCalls
    /\ cf' = ClassifyIssues([IdleClassify EXCEPT !.calls = cf.calls + 1],
                            "runCommand", CreateDatabaseCmd)
    /\ UNCHANGED <<resolvedQueries, notClassify>>

\* analyzeDatabase is called (lines 256-274, 210-217)
AnalyzeDatabase ==
    /\ cf.pc \in {"idle", "done", "failed"}
    /\ cf.calls < MaxClassifyCalls
    /\ cf' = ClassifyIssues([IdleClassify EXCEPT !.calls = cf.calls + 1],
                            "runCommand", AnalyzeDatabaseCmd)
    /\ UNCHANGED <<resolvedQueries, notClassify>>

\* the command of runCommand settles (lines 142-153, 217-227): gh throws
\* or createDatabase / analyzeDatabase returns
RunCommandReturns ==
    /\ cf.pc = "runCommand"
    /\ \E b \in Behaviours(timeout, {""}) :
          LET cmd == cf.log[Len(cf.log)]
              result == RunAsyncShell(RunCommandOptions("db"), b)
              c == [cf EXCEPT !.last = Some(Finished(cmd, b))]
          IN cf' = IF GhThrows(result.code)
                   THEN ClassifyFails(c, GhError(cmd, result))
                   ELSE [c EXCEPT !.pc = "done"]
    /\ UNCHANGED <<resolvedQueries, notClassify>>

\* the caller holds an instance, and its timeout is the one make was called
\* with (lines 104-105, 113-115)
Constructed == HandedOut(mk.pc) /\ mk.timeout = Thousandths(timeout)

Init ==
    /\ timeout \in Timeouts
    /\ shell = [c \in ShellCalls |-> IdleShell]
    /\ resolvedQueries = <<>>
    /\ rq = [r \in ResolveCalls |-> IdleResolve]
    /\ mk = IdleMake
    /\ su = [k \in SuiteCalls |-> IdleSuite]
    /\ cf = IdleClassify
    /\ lg = <<>>
    /\ tf = IdleTmpFiles

NextShell ==
    \E c \in ShellCalls :
        \/ ShellStart(c)
        \/ ShellOpenOut(c)
        \/ ShellSpawn(c)
        \/ ProcWrite(c)
        \/ ProcClose(c)
        \/ TimerFire(c)
        \/ ShellReadOut(c)
        \/ ShellUnlinkOut(c)
        \/ ShellReadErr(c)
        \/ ShellUnlinkErr(c)

SpecShell == Init /\ [][NextShell]_vars

NextResolve ==
    \E r \in ResolveCalls :
        \/ ResolveStart(r)
        \/ ResolveGhThrows(r)
        \/ ResolveGhReturns(r)

\* an instance made with the default timeout (line 98)
InitDefault == Init /\ timeout = -1

SpecResolve == InitDefault /\ [][NextResolve]_vars

NextMake ==
    \/ MakeStart
    \/ GhVersionReturns
    \/ ExtListReturns
    \/ ExtInstallReturns
    \/ CliVersionReturns
    \/ SwitchReturns
    \/ SpawnError
    \/ FacadeCall

SpecMake == InitDefault /\ [][NextMake]_vars

NextSuite == \E k \in SuiteCalls : MakeSuiteCall(k)

SpecSuite == InitDefault /\ [][NextSuite]_vars

NextClassify ==
    \/ ClassifyStart
    \/ ClassifyResolveReturns
    \/ ClassifyQueryRunReturns
    \/ ClassifyDecodeReturns

SpecClassify == Init /\ [][NextClassify]_vars

NextLang ==
    \/ \E language \in Range(SupportedLanguages) : LanguageRoundTrip(language)
    \/ \E id \in Range(SupportedLanguageIds) : IdRoundTrip(id)
    \/ \E language \in LanguageNames : CheckLanguage(language)
    \/ \E id \in LanguageIdNames : CheckLanguageId(id)
    \/ \E queryId \in QueryIdStrings : LanguageFromQueryId(queryId)

SpecLang == InitDefault /\ [][NextLang]_vars

\* construction, then the operations of the instance one after the other
NextFacade ==
    \/ MakeStart
    \/ GhVersionReturns
    \/ ExtListReturns
    \/ ExtInstallReturns
    \/ CliVersionReturns
    \/ SwitchReturns
    \/ SpawnError
    \/ Constructed /\ CreateDatabase
    \/ Constructed /\ AnalyzeDatabase
    \/ Constructed /\ ClassifyStart
    \/ RunCommandReturns
    \/ ClassifyResolveReturns
    \/ ClassifyQueryRunReturns
    \/ ClassifyDecodeReturns

SpecFacade == Init /\ [][NextFacade]_vars

NextTmp ==
    \E k \in TmpCalls :
        \/ TmpStart(k)
        \/ TmpOpenOut(k)
        \/ TmpSpawn(k)
        \/ TmpProcWrite(k)
        \/ TmpProcClose(k)
        \/ TmpReadOut(k)
        \/ TmpUnlinkOut(k)
        \/ TmpReadErr(k)
        \/ TmpUnlinkErr(k)

SpecTmp == InitDefault /\ [][NextTmp]_vars

\* The event loop runs every callback that is due: an open event, a live
\* timer and a finished file operation are each delivered.  A process that was
\* sent SIGKILL ends; a running process need never exit.
FairShell ==
    \A c \in ShellCalls :
        /\ WF_vars(ShellOpenOut(c))
        /\ WF_vars(ShellSpawn(c))
        /\ WF_vars(TimerFire(c))
        /\ WF_vars(ShellReadOut(c))
        /\ WF_vars(ShellUnlinkOut(c))
        /\ WF_vars(ShellReadErr(c))
        /\ WF_vars(ShellUnlinkErr(c))

FairSpecShell == Init /\ [][NextShell]_vars /\ FairShell

(***************************************************************************)
(* Claims about runAsyncShell                                              *)
(***************************************************************************)
Returned(c) == shell[c].pc = "done"

\* the size check saw a file larger than 1 GiB
SizeCapApplied(c) ==
    \/ shell[c].statOut > 1024 * 1024 * 1024
    \/ shell[c].statErr > 1024 * 1024 * 1024

\* C1: when the timer fires before the close event was observed, the process
\* has been sent SIGKILL (it no longer runs), and the call returns exit code
\* 124, whether or not a close event arrives afterwards.
C1_TimeoutKillsAndReturns124 ==
    \A c \in ShellCalls :
        shell[c].winner = "timer" =>
            /\ shell[c].kills >= 1
            /\ shell[c].proc \in {"killed", "closed"}
            /\ Returned(c) => shell[c].result[1].code = 124

\* C1 witness: a call that the timer ended has returned 124 below the size
\* cap, and the killed process's close event has arrived since.
C1_Witness ==
    \E c \in ShellCalls :
        /\ shell[c].winner = "timer"
        /\ Returned(c)
        /\ shell[c].closeSeen
        /\ ~SizeCapApplied(c)
        /\ shell[c].result[1].code = 124

\* C2 as stated: when the close event is observed before the timer fires, no
\* timer of the call is armed when it returns, and the returned exit code is
\* the process's exit code, null reported as 0.
C2_Original ==
    \A c \in ShellCalls :
        (Returned(c) /\ shell[c].winner = "close") =>
            /\ ~shell[c].timerArmed
            /\ shell[c].exit = None => shell[c].result[1].code = 0
            /\ shell[c].exit # None =>
                   shell[c].result[1].code = shell[c].exit[1]

\* C2 amended: when the close event is observed before the timer fires, no
\* timer of the call is armed when it returns, and the returned exit code is
\* the process's exit code, null reported as 0, unless a temporary file is
\* larger than 1 GiB, in which case it is 124.
C2_CloseFirstRealCode ==
    \A c \in ShellCalls :
        (Returned(c) /\ shell[c].winner = "close") =>
            /\ ~shell[c].timerArmed
            /\ SizeCapApplied(c) => shell[c].result[1].code = 124
            /\ (~SizeCapApplied(c) /\ shell[c].exit = None) =>
                   shell[c].result[1].code = 0
            /\ (~SizeCapApplied(c) /\ shell[c].exit # None) =>
                   shell[c].result[1].code = shell[c].exit[1]

\* C2 witness: with a timer armed at spawn, the process closed first with a
\* null exit code, and the call has returned.
C2_Witness ==
    \E c \in ShellCalls :
        /\ Returned(c)
        /\ shell[c].winner = "close"
        /\ timeout > 0
        /\ shell[c].exit = None
        /\ shell[c].result[1].code = 0

\* C3: if the size check finds the stdout or the stderr file larger than
\* 1 GiB, the call returns [124, "", message] whatever the race produced and
\* reads neither file; if both are at most 1 GiB, the call returns the code
\* of the race and the two strings it read.
C3_SizeCap ==
    \A c \in ShellCalls :
        Returned(c) =>
            IF SizeCapApplied(c)
            THEN /\ shell[c].result[1] =
                        [code |-> 124, stdout |-> "", stderr |-> CapMessage]
                 /\ ~shell[c].outRead
                 /\ ~shell[c].errRead
            ELSE /\ shell[c].result[1].code = shell[c].code[1]
                 /\ shell[c].winner = "timer" => shell[c].result[1].code = 124
                 /\ shell[c].outRead /\ shell[c].errRead
                 /\ shell[c].result[1].stdout = shell[c].stdout
                 /\ shell[c].result[1].stderr = shell[c].stderr

\* C3 witness: the process exited with code 1 leaving a stderr file over the
\* cap, and the call has returned.
C3_Witness ==
    \E c \in ShellCalls :
        /\ Returned(c)
        /\ shell[c].statErr > 1024 * 1024 * 1024
        /\ shell[c].statOut <= 1024 * 1024 * 1024
        /\ shell[c].exit = Some(1)
        /\ shell[c].result[1].code = 124

\* C4: whenever a call has returned, its two temporary files are deleted and
\* their write streams closed.
C4_TempFilesRemoved ==
    \A c \in ShellCalls :
        Returned(c) =>
            /\ ~shell[c].outFile
            /\ ~shell[c].errFile
            /\ shell[c].outStream = "closed"
            /\ shell[c].errStream = "closed"

\* C5: every call with timeout > 0 eventually returns, even when the process
\* never exits on its own.
C5_EventuallyReturns ==
    \A c \in ShellCalls :
        (shell[c].pc # "idle" /\ timeout > 0) ~> Returned(c)

\* C5 witness: a call has returned although its process never exited on its
\* own: the timer ended the race and the process has not closed yet.
C5_Witness ==
    \E c \in ShellCalls :
        /\ Returned(c)
        /\ timeout > 0
        /\ shell[c].winner = "timer"
        /\ shell[c].proc = "killed"

(***************************************************************************)
(* Claims about resolveQueries and the cache                               *)
(***************************************************************************)
\* the identifiers of the suite a call passed to `resolve queries`
SuiteIds(c) == IF c.issued THEN c.suite[1][2].include.id ELSE <<>>

StartsNow(r) == rq[r].pc = "idle" /\ rq'[r].pc # "idle"

ReturnsNow(r) == rq[r].pc # "done" /\ rq'[r].pc = "done"

\* C6: when a call starts after another call has returned, no identifier
\* the two calls share is in the resolve command of both: the command is
\* issued at most once for it.
C6_SequentialResolveOnce ==
    [][\A r1, r2 \in ResolveCalls :
          (rq[r1].pc = "done" /\ StartsNow(r2)) =>
              \A id \in Range(rq[r1].ids) \cap Range(rq'[r2].ids) :
                  ~(/\ id \in Range(SuiteIds(rq[r1]))
                    /\ id \in Range(SuiteIds(rq'[r2])))]_vars

\* C6 witness: a call resolved an identifier with a command and returned; a
\* later call for the same identifier returned without any command.
C6_Witness ==
    \E r1, r2 \in ResolveCalls :
        /\ r1 < r2
        /\ rq[r1].pc = "done" /\ rq[r2].pc = "done"
        /\ rq[r1].issued /\ ~rq[r2].issued
        /\ \E id \in Range(rq[r2].ids) : id \in Range(SuiteIds(rq[r1]))

\* C7: a call with N identifiers of which M are cached when it starts passes
\* a suite of exactly the N-M uncached ones, in their order, to the resolve
\* command; with M = N it starts no command and creates no suite file.
C7_SuiteHoldsUncached ==
    [][\A r \in ResolveCalls :
          StartsNow(r) =>
              LET c == rq'[r]
                  N == Len(c.ids)
                  M == Cardinality({i \in 1..N :
                                       c.ids[i] \in DOMAIN resolvedQueries})
                  uncached == SelectSeq(c.ids, LAMBDA id :
                                           id \notin DOMAIN resolvedQueries)
              IN /\ M = N => (~c.issued /\ c.suiteFile = "none")
                 /\ c.issued => /\ SuiteIds(c) = uncached
                                /\ Len(SuiteIds(c)) = N - M
                 /\ (M < N /\ HasDefaultQueryPackVersion(c.language)) =>
                        c.issued]_vars

\* C7 witness: a batch of two different identifiers, one of them cached, for
\* which a command over the other one was started.
C7_Witness ==
    \E r \in ResolveCalls :
        /\ rq[r].issued
        /\ Len(rq[r].ids) = 2
        /\ rq[r].ids[1] # rq[r].ids[2]
        /\ Len(SuiteIds(rq[r])) = 1

\* the place of the i-th requested identifier in the unresolved list
PositionInUnresolved(c, i) ==
    Cardinality({j \in 1..i : c.ids[j] \in Range(c.unresolved)})

\* C8: a call returns one entry per requested identifier, in the order
\* requested: for an uncached identifier what the resolver returned at the
\* position of that request in the unresolved list, otherwise the path
\* cached before.
C8_ReturnsPathPerRequest ==
    [][\A r \in ResolveCalls :
          ReturnsNow(r) =>
              LET c == rq'[r]
                  res == c.result[1]
              IN /\ Len(res) = Len(c.ids)
                 /\ \A i \in 1..Len(c.ids) :
                       IF c.ids[i] \in Range(c.unresolved)
                       THEN res[i] = At(c.resolved[1],
                                        PositionInUnresolved(c, i))
                       ELSE res[i] = resolvedQueries[c.ids[i]]]_vars

\* C9: no step removes a key of the cache.
C9_CacheOnlyGrows ==
    [][\A id \in DOMAIN resolvedQueries : id \in DOMAIN resolvedQueries']_vars

\* C9 witness: two calls have filled the cache one after the other, each
\* with its own identifier, and both keys are there.
C9_Witness ==
    \E r1, r2 \in ResolveCalls :
        /\ r1 # r2
        /\ rq[r1].pc = "done" /\ rq[r2].pc = "done"
        /\ rq[r1].issued /\ rq[r2].issued
        /\ Range(SuiteIds(rq[r1])) \cap Range(SuiteIds(rq[r2])) = {}
        /\ DOMAIN resolvedQueries =
               Range(SuiteIds(rq[r1])) \cup Range(SuiteIds(rq[r2]))

\* every answer of the resolver so far listed the path of each identifier of
\* the suite, in the suite's order
ResolverExact ==
    \A r \in ResolveCalls :
        rq[r].resolved # None =>
            rq[r].resolved[1] = ExactPaths(rq[r].unresolved)

\* C10: with a deterministic order-preserving resolver, every call that has
\* returned, interleaved with others or not, returned for each requested
\* identifier the path the resolver maps it to, and the cache holds that
\* path for every key.
C10_RaceIsBenign ==
    ResolverExact =>
        /\ \A r \in ResolveCalls :
              rq[r].pc = "done" =>
                  \A i \in 1..Len(rq[r].ids) :
                      rq[r].result[1][i] = Some(PathOf(rq[r].ids[i]))
        /\ \A id \in DOMAIN resolvedQueries :
              resolvedQueries[id] = Some(PathOf(id))

\* C10 witness: two calls both found the same identifier uncached, both
\* issued a resolve command for it, and both have returned its path.
C10_Witness ==
    \E r1, r2 \in ResolveCalls :
        /\ r1 # r2
        /\ rq[r1].pc = "done" /\ rq[r2].pc = "done"
        /\ ResolverExact
        /\ \E id \in QueryIds :
              /\ id \in Range(SuiteIds(rq[r1]))
              /\ id \in Range(SuiteIds(rq[r2]))
              /\ resolvedQueries[id] = Some(PathOf(id))

(***************************************************************************)
(* Claims about CodeQL.make                                                *)
(***************************************************************************)
\* the places of command x in a log of commands
Positions(seq, x) == {i \in DOMAIN seq : seq[i] = x}

\* the last version query of this construction reported the requested version
LastReportMatches ==
    /\ mk.reports # <<>>
    /\ mk.reports[Len(mk.reports)] = <<mk.version>>

\* C11: make returns an instance only if the last version query made during
\* construction reported (after trimming) exactly the requested version; a
\* construction that ended in any other way has failed, and no instance was
\* handed out.
C11_InstanceOnlyAtTargetVersion ==
    /\ mk.pc = "returned" => LastReportMatches
    /\ (mk.pc \in {"returned", "failed"} /\ ~LastReportMatches) =>
           (mk.pc = "failed" /\ mk.error # "" /\ mk.ops = 0)
    /\ mk.pc = "failed" => mk.ops = 0

\* C11 witness: the first query reported another version, the switch was
\* made, the second query reported the requested one and make returned.
C11_Witness ==
    /\ mk.pc = "returned"
    /\ Len(mk.reports) = 2
    /\ mk.reports[1] # <<mk.version>>
    /\ mk.reports[2] = <<mk.version>>

\* C12: during one construction `set-channel release` and `set-version
\* <target>` are each issued at most once, set-version directly after
\* set-channel, and set-channel only after a version query reported a value
\* different from the target; once set-version has succeeded the version is
\* queried again exactly once (one more getCliVersion, at most one more
\* version command); if that query still differs, construction has failed
\* with the version-mismatch error and no further command was issued.
C12_SingleSwitchThenRecheck ==
    LET v == mk.version
        log == mk.log
        chan == Positions(log, SetChannelCmd)
        setv == Positions(log, SetVersionCmd(v))
        query == Positions(log, CliVersionCmd)
        check == Positions(log, GhVersionCmd)
    IN /\ Cardinality(chan) <= 1
       /\ Cardinality(setv) <= 1
       /\ \A j \in setv : j > 1 /\ log[j - 1] = SetChannelCmd
       /\ \A i \in chan :
             /\ \E q \in query : q < i
             /\ Len(mk.reports) >= 1
             /\ mk.reports[1] # <<v>>
       /\ \A j \in setv :
             /\ Cardinality({q \in query : q > j}) <= 1
             /\ mk.switch = 2 => Cardinality({c \in check : c > j}) = 1
       /\ Len(mk.reports) <= 2
       /\ Len(mk.reports) = 2 => Cardinality(setv) = 1
       /\ (Len(mk.reports) = 2 /\ mk.reports[2] # <<v>>) =>
             /\ mk.pc = "failed"
             /\ mk.error = FailedToInstall(v)
             /\ log[Len(log)] = CliVersionCmd

\* C12 witness: both switch commands ran, the version was queried again and
\* still differed, and construction failed with the mismatch error.
C12_Witness ==
    /\ mk.pc = "failed"
    /\ mk.error = FailedToInstall(mk.version)
    /\ Len(mk.reports) = 2
    /\ SetChannelCmd \in Range(mk.log)
    /\ SetVersionCmd(mk.version) \in Range(mk.log)

\* C13: when the process of `gh --version` cannot be spawned (it emits an
\* error event instead of running), make is rejected with "Cannot find gh
\* CLI." and no later command is issued; until then the call is at most
\* waiting for an armed timer.
C13_SpawnFailureIsToolNotFound ==
    (mk.spawnErrors > 0 /\ Len(mk.log) = 1) =>
        \/ mk.pc = "failed" /\ mk.error = CannotFindGh
        \/ mk.pc = "ghVersion" /\ ArmsTimer(mk.timeout)

\* the version check of the instance has completed successfully
Ready == mk.pc = "returned" /\ LastReportMatches

\* C14: a facade operation starts only on an instance whose version check
\* has completed successfully, and no step takes a ready instance back to
\* not ready.
C14_ReadyForWholeLife ==
    [][/\ mk'.ops > mk.ops => (Ready /\ Ready')
       /\ Ready => Ready']_vars

\* C14 witness: facade operations were started on an instance that make
\* returned after a successful switch.
C14_Witness ==
    /\ mk.ops > 1
    /\ Ready
    /\ mk.pass = 2

\* C15: make with a timeout that is negative and not -1 fails with the
\* validation error before any command is issued; with -1 or a value >= 0
\* validation passes.
C15_NegativeTimeoutRejected ==
    mk.pc # "idle" =>
        IF mk.timeout < 0 /\ mk.timeout # Thousandths(-1)
        THEN mk.pc = "failed" /\ mk.error = TimeoutMessage /\ mk.log = <<>>
        ELSE mk.error # TimeoutMessage /\ mk.log # <<>>

(***************************************************************************)
(* Claims about runCommand, makeSuite and classifyFiles                    *)
(***************************************************************************)
\* the exit code the runner reported for a settled command
ReportedCode(f) ==
    IF f.timerFirst THEN TimeoutExitCode ELSE NormalizeCode(f.exit)

ExecutionErrors ==
    {FailedToExecute(cmd) : cmd \in {ResolveCmd, QueryRunCmd, DecodeCmd}}

C17_TempFilesDeleted ==
    cf.pc \in {"done", "failed"} =>
        /\ cf.suiteFile # "exists"
        /\ cf.bqrsFile # "exists"
        /\ cf.jsonFile # "exists"

\* C18: makeSuite(language, ids...) fails, with the missing-pack-version
\* error, exactly when the pack table has no entry for
\* codeql/<language>-queries; otherwise it returns a file whose content
\* parses to [{queries: ".", from: "codeql/<language>-queries", version:
\* <configured>}, {include: {id: [ids in the given order]}}].
C18_SuiteRoundTrip ==
    \A k \in SuiteCalls :
        LET s == su[k]
            name == "codeql/" \o s.language \o "-queries"
        IN s.pc # "idle" =>
              /\ s.pc = "failed" <=> name \notin DOMAIN PackVersions
              /\ s.pc = "failed" =>
                     s.error = MissingPackVersion(s.language)
              /\ s.pc = "done" =>
                     /\ s.file = "exists"
                     /\ JSONParseSuite(s.content) =
                            Some(<<[queries |-> ".",
                                    from |-> name,
                                    version |-> PackVersions[name]],
                                   [include |-> [id |-> s.queryIds]]>>)

\* C18 witness: a suite over two different identifiers was written, and a
\* call for a language without a pack version failed.
C18_Witness ==
    \E k, j \in SuiteCalls :
        /\ su[k].pc = "done"
        /\ Len(su[k].queryIds) = 2
        /\ su[k].queryIds[1] # su[k].queryIds[2]
        /\ su[j].pc = "failed"

\* resolveQueries has returned to this classifyFiles call with no path for
\* the classifier of its language
ResolutionYieldedNothing ==
    /\ cf.pc \notin {"idle", "resolve"}
    /\ ClassifierId(cf.language) \in DOMAIN resolvedQueries
    /\ resolvedQueries[ClassifierId(cf.language)] = None

\* C19: when resolution of <short id>/file-classifier yields no path,
\* classifyFiles fails with the classifier-unresolved error, neither `query
\* run` nor `bqrs decode` is issued and no temporary result file is created.
C19_UnresolvedClassifierFails ==
    ResolutionYieldedNothing =>
        /\ cf.pc = "failed"
        /\ cf.error.message = ClassifierUnresolved(cf.language)
        /\ QueryRunCmd \notin Range(cf.log)
        /\ DecodeCmd \notin Range(cf.log)
        /\ cf.bqrsFile = "none"
        /\ cf.jsonFile = "none"

\* C19 witness: the resolver answered with an empty array, and the call
\* failed with the classifier-unresolved error after its resolve command.
C19_Witness ==
    /\ ResolutionYieldedNothing
    /\ cf.log = <<ResolveCmd>>
    /\ cf.error.message = ClassifierUnresolved(cf.language)

\* the value a list of tuples gives a label: the second column of the last
\* tuple whose first column has that label
LastValue(tuples, label) ==
    LET i == CHOOSE i \in DOMAIN tuples :
                 /\ tuples[i][1].label = label
                 /\ \A j \in DOMAIN tuples :
                        tuples[j][1].label = label => j <= i
    IN tuples[i][2]

\* what C20 says of one step about the order of the commands and about the
\* returned map
ClassifyStepInOrder ==
    /\ cf'.calls > cf.calls =>
          /\ cf'.log # <<>> =>
                 cf'.log[1] = ResolveCmd <=>
                     ClassifierId(cf'.language) \notin DOMAIN resolvedQueries
          /\ Len(cf'.log) <= 1
    /\ (cf'.calls = cf.calls /\ Len(cf'.log) > Len(cf.log)) =>
          /\ cf.log # <<>>
          /\ Len(cf'.log) = Len(cf.log) + 1
          /\ <<cf.log[Len(cf.log)], cf'.log[Len(cf'.log)]>> \in
                 {<<ResolveCmd, QueryRunCmd>>, <<QueryRunCmd, DecodeCmd>>}
          /\ cf'.last # None
          /\ cf'.last[1].cmd = cf.log[Len(cf.log)]
    /\ (cf'.pc = "done" /\ cf.pc # "done") =>
          /\ cf'.log \in {<<ResolveCmd, QueryRunCmd, DecodeCmd>>,
                          <<QueryRunCmd, DecodeCmd>>}
          /\ cf'.last # None
          /\ cf'.last[1].cmd = DecodeCmd
          /\ LET tuples == cf'.tuples[1]
                 map == cf'.result[1]
             IN /\ DOMAIN map =
                       {tuples[i][1].label : i \in DOMAIN tuples}
                /\ \A label \in DOMAIN map :
                       map[label] = LastValue(tuples, label)

\* a step in which a command settles and the call goes on: to its next
\* command, or to its return
Proceeds ==
    \/ cf'.calls = cf.calls /\ Len(cf'.log) > Len(cf.log)
    \/ cf'.pc = "done" /\ cf.pc # "done"

\* the process ended by itself with exit code 0
ExitedWithZero(f) == f.exit = Some(0) /\ ~f.timerFirst

\* the runner reported exit code 0: the process ended with code 0, or it
\* was ended by a signal, not by the timer, and has no exit code (line 420)
ReportedZero(f) == ReportedCode(f) = 0

\* C20 as stated: a classifyFiles call issues resolve (only when the
\* classifier is not cached), `query run`, `bqrs decode` in that order, each
\* only after the previous one exited with code 0, and on success returns
\* the map from each tuple's first-column label to its second column, the
\* last tuple of a label winning.
C20_OrderedAfterExitZero ==
    [][/\ ClassifyStepInOrder
       /\ Proceeds => ExitedWithZero(cf'.last[1])]_vars

\* C20 amended: as C20, where a command counts as `exited with code 0` when
\* the runner reported code 0 for it, which includes a process that a
\* signal other than the timer's ended without an exit code.
C20_OrderedAfterReportedZero ==
    [][/\ ClassifyStepInOrder
       /\ Proceeds => ReportedZero(cf'.last[1])]_vars

\* C20 witness: a call whose classifier was cached ran `query run` and
\* `bqrs decode` and returned a map built from two tuples with the same
\* label and different classifications.
C20_Witness ==
    /\ cf.pc = "done"
    /\ cf.log = <<QueryRunCmd, DecodeCmd>>
    /\ Len(cf.tuples[1]) = 2
    /\ cf.tuples[1][1][1].label = cf.tuples[1][2][1].label
    /\ cf.tuples[1][1][2] # cf.tuples[1][2][2]
    /\ cf.result[1][cf.tuples[1][1][1].label] = cf.tuples[1][2][2]

(***************************************************************************)
(* Claims about the extension check of construction                        *)
(***************************************************************************)
\* the place in the log of the k-th command x
NthPosition(seq, x, k) ==
    CHOOSE i \in Positions(seq, x) :
        Cardinality({j \in Positions(seq, x) : j <= i}) = k

\* C21: during construction every `gh codeql ...` command is issued only
\* after a `gh --version` and a `gh extensions list` were issued and the
\* list was inspected, and after each inspected list the install command is
\* the next command exactly when the list does not contain
\* github/gh-codeql; no install command is issued otherwise.
C21_ExtensionCheckedFirst ==
    LET log == mk.log
        codeql == {CliVersionCmd, SetChannelCmd, SetVersionCmd(mk.version)}
    IN /\ \A i \in DOMAIN log :
             log[i] \in codeql =>
                 /\ mk.lists # <<>>
                 /\ \E a, b \in 1..(i - 1) :
                        a < b /\ log[a] = GhVersionCmd /\ log[b] = ExtListCmd
       /\ \A k \in DOMAIN mk.lists :
             LET p == NthPosition(log, ExtListCmd, k)
             IN /\ p < Len(log)
                /\ log[p + 1] = ExtInstallCmd <=>
                       "github/gh-codeql" \notin Range(mk.lists[k])
       /\ Cardinality(Positions(log, ExtInstallCmd)) =
              Cardinality({k \in DOMAIN mk.lists :
                              "github/gh-codeql" \notin Range(mk.lists[k])})
       /\ \A i \in Positions(log, ExtInstallCmd) :
              i > 1 /\ log[i - 1] = ExtListCmd

\* C21 witness: the first list lacked the extension and it was installed;
\* after the switch the second list had it and no second install followed.
C21_Witness ==
    /\ Len(mk.lists) = 2
    /\ "github/gh-codeql" \notin Range(mk.lists[1])
    /\ "github/gh-codeql" \in Range(mk.lists[2])
    /\ Cardinality(Positions(mk.log, ExtInstallCmd)) = 1
    /\ mk.pc = "returned"

(***************************************************************************)
(* Claims about the language tables                                        *)
(***************************************************************************)
\* the recorded lookups of one operation
LookupsOf(op) == {i \in DOMAIN lg : lg[i].op = op}

\* C22: the language mapping is a bijection between SupportedLanguageIds
\* and SupportedLanguages: mapping a supported language to its id and back
\* gives the language, mapping a supported id to its language and back
\* gives the id, the two lists have the same number of distinct elements,
\* and each is the image of the other under the mapping.
C22_LanguageMappingIsBijection ==
    LET languages == Range(SupportedLanguages)
        ids == Range(SupportedLanguageIds)
    IN /\ \A i \in LookupsOf("LanguageRoundTrip") : lg[i].out = lg[i].in
       /\ \A i \in LookupsOf("IdRoundTrip") : lg[i].out = lg[i].in
       /\ \A language \in languages :
              LanguageIdToLanguage[LanguageToLanguageId[language]] = language
       /\ \A id \in ids :
              LanguageToLanguageId[LanguageIdToLanguage[id]] = id
       /\ Cardinality(languages) = Cardinality(ids)
       /\ Len(SupportedLanguages) = Cardinality(languages)
       /\ Len(SupportedLanguageIds) = Cardinality(ids)
       /\ {LanguageIdToLanguage[id] : id \in ids} = languages
       /\ {LanguageToLanguageId[language] : language \in languages} = ids

\* C22 witness: both round trips were made, for a language whose id differs
\* from its name.
C22_Witness ==
    /\ Len(lg) = 2
    /\ lg[1].op = "LanguageRoundTrip" /\ lg[1].in = <<"csharp">>
    /\ lg[1].out = Some("csharp")
    /\ lg[2].op = "IdRoundTrip" /\ lg[2].in = <<"cs">>
    /\ lg[2].out = Some("cs")

\* "javascript" is a supported language and "js" a supported id, in the
\* tables and in every recorded membership check
IncludesJavascript ==
    /\ "javascript" \in Range(SupportedLanguages)
    /\ "js" \in Range(SupportedLanguageIds)
    /\ \A i \in LookupsOf("isSupportedLanguage") :
           lg[i].in = <<"javascript">> => lg[i].yes
    /\ \A i \in LookupsOf("isSupportedLanguageId") :
           lg[i].in = <<"js">> => lg[i].yes

StartsWithIdAndSlash(string, id) ==
    \E n \in 1..(Len(string) - 1) :
        /\ Slash \notin Range(SubSeq(string, 1, n))
        /\ Concat(SubSeq(string, 1, n)) = id
        /\ string[n + 1] = Slash

\* C24: languageFromQueryId(q) returns the full language name of short id I
\* exactly when q starts with a supported short id I followed by a slash,
\* and returns no value for every other string.
C24_LanguageExactlyWithSlash ==
    \A i \in LookupsOf("languageFromQueryId") :
        LET starts == {id \in Range(SupportedLanguageIds) :
                          StartsWithIdAndSlash(lg[i].in, id)}
        IN /\ \A id \in starts : lg[i].out = Some(LanguageIdToLanguage[id])
           /\ starts = {} => lg[i].out = None

(***************************************************************************)
(* Claims about the timer of runAsyncShell                                 *)
(***************************************************************************)
\* C25: with timeout <= 0 (0 as well as the sentinel -1) runAsyncShell arms
\* no timer: the process is never killed by the runner, the race is never
\* settled by a timer, a returned code 124 is the one of the size cap, and
\* the function continues after the race, and returns, only after the close
\* event of the process.
C25_NoTimerWithoutTimeout ==
    timeout <= 0 =>
        \A c \in ShellCalls :
            /\ ~shell[c].timerArmed
            /\ ~shell[c].timeoutHandler
            /\ shell[c].kills = 0
            /\ shell[c].proc # "killed"
            /\ shell[c].winner # "timer"
            /\ shell[c].pc \notin {"idle", "openOut", "openErr", "race"} =>
                   shell[c].closeSeen
            /\ Returned(c) =>
                   /\ shell[c].closeSeen
                   /\ shell[c].result[1].code = 124 => SizeCapApplied(c)

\* C25 witness: with timeout 0 a call has returned the code of its process
\* after the close event.
C25_Witness ==
    /\ timeout = 0
    /\ \E c \in ShellCalls :
           /\ Returned(c)
           /\ shell[c].closeSeen
           /\ shell[c].exit = Some(1)
           /\ shell[c].result[1].code = 1

\* C26: the kill signal is sent at most once per call and never after the
\* close event was observed: once close was observed, no step sends a kill
\* or changes which promise settled the race and the code it gave.
C26_KillOnceNeverAfterClose ==
    [][\A c \in ShellCalls :
          /\ shell'[c].kills <= 1
          /\ ~shell'[c].killAfterClose
          /\ shell[c].closeSeen =>
                 /\ shell'[c].kills = shell[c].kills
                 /\ shell'[c].winner = shell[c].winner
                 /\ shell'[c].code = shell[c].code]_vars

\* C26 witness: the one kill was sent, the close event of the killed
\* process was observed afterwards, and the call returned the timeout code.
C26_Witness ==
    \E c \in ShellCalls :
        /\ shell[c].kills = 1
        /\ shell[c].closeSeen
        /\ ~shell[c].timerArmed
        /\ Returned(c)
        /\ shell[c].result[1].code = TimeoutExitCode

(***************************************************************************)
(* Claims about the cache after a failed or incomplete resolution          *)
(***************************************************************************)
\* the resolve command of call r ends in this step
CommandEndsNow(r) == rq[r].pc = "gh" /\ rq'[r].pc # "gh"

\* C27: if the `resolve queries` command of a resolveQueries call fails (a
\* nonzero code of the process or of the runner's timeout, or output that
\* does not parse), the call fails and the cache is exactly what it was
\* before the step; the cache changes only in a step in which a command
\* ended with code 0 and its call returned; and a call that starts puts
\* every identifier it is asked for that is missing from the cache into its
\* suite, so the identifiers of a failed call are resolved again.
C27_FailedResolveLeavesCache ==
    [][/\ \A r \in ResolveCalls :
             /\ (/\ CommandEndsNow(r)
                 /\ rq'[r].nonzero \/ rq'[r].error = "SyntaxError") =>
                    /\ rq'[r].pc = "failed"
                    /\ resolvedQueries' = resolvedQueries
             /\ StartsNow(r) =>
                    \A id \in Range(rq'[r].ids) :
                        id \notin DOMAIN resolvedQueries =>
                            id \in Range(rq'[r].unresolved)
       /\ resolvedQueries' # resolvedQueries =>
              \E r \in ResolveCalls :
                  /\ CommandEndsNow(r)
                  /\ rq'[r].pc = "done"
                  /\ ~rq'[r].nonzero]_vars

\* C27 witness: the command of the first call failed, the cache is still
\* empty, and the second call has issued a command for the same identifier.
C27_Witness ==
    /\ rq[1].pc = "failed" /\ rq[1].nonzero
    /\ rq[1].unresolved = <<"js/xss">>
    /\ resolvedQueries = <<>>
    /\ rq[2].pc = "gh" /\ rq[2].issued
    /\ SuiteIds(rq[2]) = <<"js/xss">>

\* C28: every value stored in the cache is a resolved path: an identifier
\* for which the resolver returned no path is not entered into the cache.
C28_CacheHoldsOnlyPaths ==
    \A id \in DOMAIN resolvedQueries : resolvedQueries[id] # None

(***************************************************************************)
(* Claims about the temporary files of overlapping calls                   *)
(***************************************************************************)
\* the call has started and not returned
InFlight(k) == tf.calls[k].pc \notin {"idle", "done"}

\* the temporary files the call has named
FilesOf(k) == {tf.calls[k].stdoutFile, tf.calls[k].stderrFile} \ {NoName}

LastIssued == mk.log[Len(mk.log)]

\* C30: a command that the runner ended by timeout (code 124) is never
\* treated as success: a createDatabase, analyzeDatabase or classifyFiles
\* call whose command's timer fired first has failed with the
\* command-execution error of that command and has issued no further
\* command, and a gh call of construction that returned 124 has failed make
\* (with "Cannot find gh CLI." for `gh --version`, whose error is caught and
\* replaced, and with the command-execution error otherwise).
C30_TimeoutIsNeverSuccess ==
    /\ cf.last # None /\ cf.last[1].timerFirst =>
           /\ cf.pc = "failed"
           /\ cf.error.message = FailedToExecute(cf.last[1].cmd)
           /\ cf.log[Len(cf.log)] = cf.last[1].cmd
    /\ mk.code = Some(TimeoutExitCode) =>
           /\ mk.pc = "failed"
           /\ mk.error = IF LastIssued = GhVersionCmd
                         THEN CannotFindGh
                         ELSE FailedToExecute(LastIssued)

\* C30 witness: on an instance made with a timeout of 2 seconds, the timer
\* of `database create` fired before the process closed, and createDatabase
\* failed with the command-execution error.
C30_Witness ==
    /\ mk.pc = "returned"
    /\ timeout = 2
    /\ cf.pc = "failed"
    /\ cf.last # None
    /\ cf.last[1].cmd = CreateDatabaseCmd
    /\ cf.last[1].timerFirst
    /\ cf.error.message = FailedToExecute(CreateDatabaseCmd)

=============================================================================
